---- MODULE Spec2Model ----
(***************************************************************************)
(* State-machine model of the IPRewriter element                            *)
(* (src/elements/ip/iprewriter.cc): paired forward/reverse Mappings with    *)
(* incremental checksum deltas, the Pattern's source-port rover, the two    *)
(* per-protocol flow tables, push() and the periodic garbage collector.     *)
(***************************************************************************)
EXTENDS Integers, Sequences, FiniteSets, TLC

VARIABLES
    bigEndian,  \* byte order of the host the element is built for
    pat,        \* the Pattern of the pattern input: _saddr,_sportl,_sporth,_daddr,_dport
    rover,      \* Pattern::_rover (NULL when the pattern's list is empty)
    maps,       \* the heap of Mapping objects, by address
    tcp_map,    \* IPRewriter::_tcp_map
    udp_map,    \* IPRewriter::_udp_map
    last,       \* what the last push()/run_scheduled() call did (observable outcome)
    cmap,       \* checksum study: the Mapping under test
    cpkt,       \* checksum study: the packet before apply()
    cres,       \* checksum study: the packet after apply()
    opat,       \* conflict study: the other Pattern, `o'
    conflict    \* conflict study: what the conflict tests of pat with o returned

vars == <<bigEndian, pat, rover, maps, tcp_map, udp_map, last, cmap, cpkt, cres,
          opat, conflict>>

rwvars == <<pat, rover, maps, tcp_map, udp_map, last>>
csvars == <<cmap, cpkt, cres>>
pcvars == <<opat, conflict>>

----------------------------------------------------------------------------
(* Bounds of the model *)

MaxAddr == 2      \* packet addresses are 1..MaxAddr
MaxPort == 2      \* packet ports are 1..MaxPort
MaxRange == 3     \* the pattern's source-port range is 1..MaxRange at most
MaxPairs == 2     \* Mapping pairs allocated in a run of the element
MaxPatPairs == 4  \* Mapping pairs allocated in a run of the Pattern alone
MaxCsPort == 2    \* checksum study: ports are 1..MaxCsPort and 65535

----------------------------------------------------------------------------
(* 16-bit arithmetic and byte order *)

NULL == 0

U16 == 65536

ToU16(x) == x % U16

\* ~x & 0xFFFF
Not16(x) == (U16 - 1) - ToU16(x)

Swap16(x) == (x % 256) * 256 + (x \div 256)

htons(x) == IF bigEndian THEN ToU16(x) ELSE Swap16(ToU16(x))

ntohs(x) == IF bigEndian THEN ToU16(x) ELSE Swap16(ToU16(x))

\* while (sum >> 16) sum = (sum & 0xFFFF) + (sum >> 16);
RECURSIVE Fold(_)
Fold(sum) == IF sum \div U16 > 0 THEN Fold((sum % U16) + (sum \div U16)) ELSE sum

----------------------------------------------------------------------------
(* IPFlowID: addresses as 32-bit values, ports in network byte order *)

FlowID(saddr, sport, daddr, dport) ==
    [saddr |-> saddr, sport |-> sport, daddr |-> daddr, dport |-> dport]

rev(f) == FlowID(f.daddr, f.dport, f.saddr, f.sport)

\* the flow id read as six unsigned shorts: (const unsigned short *)&flow
flow_words(f) ==
    << htons(f.saddr \div U16), htons(f.saddr % U16),
       htons(f.daddr \div U16), htons(f.daddr % U16),
       f.sport, f.dport >>

----------------------------------------------------------------------------
(* IPRewriter::Mapping *)

\* a heap cell never allocated, and a cell whose Mapping was deleted
NoMap == [live |-> FALSE, freed |-> FALSE]

FreedMap == [live |-> FALSE, freed |-> TRUE]

RECURSIVE csum_incr(_, _, _, _, _)
csum_incr(source_words, dest_words, i, n, increment) ==
    IF i > n THEN increment
    ELSE csum_incr(source_words, dest_words, i + 1, n,
                   increment + Not16(ntohs(source_words[i])) + ntohs(dest_words[i]))

\* the member initialisers, the two increments computed
MappingInit(out, p, output, is_reverse, ip_incr, udp_incr) ==
    [live |-> TRUE, mapto |-> out, out |-> output, used |-> FALSE,
     is_reverse |-> is_reverse, pat |-> p, pat_prev |-> NULL, pat_next |-> NULL,
     reverse |-> NULL, ip_csum_incr |-> ip_incr, udp_csum_incr |-> udp_incr]

\* the second loop, over the port words, continues from the folded IP increment
MappingUdp(out, p, output, is_reverse, source_words, dest_words, ip_incr) ==
    MappingInit(out, p, output, is_reverse, ip_incr,
                Fold(csum_incr(source_words, dest_words, 5, 6, ip_incr)))

MappingWords(out, p, output, is_reverse, source_words, dest_words) ==
    MappingUdp(out, p, output, is_reverse, source_words, dest_words,
               Fold(csum_incr(source_words, dest_words, 1, 4, 0)))

Mapping(in, out, p, output, is_reverse) ==
    MappingWords(out, p, output, is_reverse, flow_words(in), flow_words(out))

\* Mapping::flow_id() and Mapping::sport()
flow_id(m) == m.mapto

sport(m) == m.mapto.sport

\* the packet: protocol, 5-tuple, the two checksum fields as stored, and the
\* one's-complement sums of the header words apply() does not touch
Packet(ip_p, flow, ip_rest, ip_sum, th_rest, th_sum) ==
    [ip_p |-> ip_p, flow |-> flow, ip_rest |-> ip_rest, ip_sum |-> ip_sum,
     th_rest |-> th_rest, th_sum |-> th_sum]

\* a fault for C9: the sum is truncated, the carry out of bit 15 is lost
csum_update_nofold(field, incr) == Not16(htons(ToU16(Not16(ntohs(field)) + incr)))

csum_update(field, incr) == Not16(htons(Fold(Not16(ntohs(field)) + incr)))

\* Mapping::apply, the packet part (mark_used is the caller's heap update)
apply(m, p) ==
    [p EXCEPT !.flow = m.mapto,
              !.ip_sum = csum_update(p.ip_sum, m.ip_csum_incr),
              !.th_sum = IF p.ip_p = "TCP"
                         THEN csum_update(p.th_sum, m.udp_csum_incr)
                         ELSE IF p.th_sum # 0
                              THEN csum_update(p.th_sum, m.udp_csum_incr)
                              ELSE p.th_sum]

mark_used(ms, m) == [ms EXCEPT ![m].used = TRUE]

\* operator new: the heap hands out fresh cells, lowest address first, and
\* does not hand out a deleted cell again
FreeCells(ms) == {i \in DOMAIN ms : ~ms[i].live /\ ~ms[i].freed}

NewCell(ms) == CHOOSE i \in FreeCells(ms) : \A j \in FreeCells(ms) : i <= j

\* new Mapping(...): the object placed in cell `at'
new_mapping(ms, at, obj) == [maps |-> [ms EXCEPT ![at] = obj], at |-> at]

\* im->_reverse = om; om->_reverse = im; *in_map = im; *out_map = om;
make_pair_link(im, o) ==
    [maps |-> [o.maps EXCEPT ![im].reverse = o.at, ![o.at].reverse = im],
     in_map |-> im, out_map |-> o.at]

\* a fault for C7: the reverse Mapping rewrites to inf, not to inf.rev()
make_pair_om_inf(i, inf, outf, pattern, routput) ==
    make_pair_link(i.at, new_mapping(i.maps, NewCell(i.maps),
                                     Mapping(rev(outf), inf, pattern, routput, TRUE)))

make_pair_om(i, inf, outf, pattern, routput) ==
    make_pair_link(i.at, new_mapping(i.maps, NewCell(i.maps),
                                     Mapping(rev(outf), rev(inf), pattern, routput, TRUE)))

make_pair(ms, inf, outf, pattern, foutput, routput) ==
    make_pair_om(new_mapping(ms, NewCell(ms), Mapping(inf, outf, pattern, foutput, FALSE)),
                 inf, outf, pattern, routput)

pat_insert_after(ms, self, m) ==
    IF m # NULL
    THEN LET nxt == ms[m].pat_next
             ms1 == [ms EXCEPT ![self].pat_prev = m, ![self].pat_next = nxt]
             ms2 == [ms1 EXCEPT ![m].pat_next = self]
         IN [ms2 EXCEPT ![nxt].pat_prev = self]
    ELSE [ms EXCEPT ![self].pat_prev = self, ![self].pat_next = self]

\* a fault for C15: _pat_prev->_pat_next is left pointing at the Mapping
pat_unlink_half(ms, m) ==
    LET nxt == ms[m].pat_next
        prv == ms[m].pat_prev
    IN [ms EXCEPT ![nxt].pat_prev = prv]

pat_unlink(ms, m) ==
    LET nxt == ms[m].pat_next
        prv == ms[m].pat_prev
        ms1 == [ms EXCEPT ![nxt].pat_prev = prv]
    IN [ms1 EXCEPT ![prv].pat_next = ms1[m].pat_next]

----------------------------------------------------------------------------
(* IPRewriter::Pattern *)

\* the `this' of the one Pattern object; Mapping::_pat is this or NULL
ThePattern == 1

Pattern(saddr, sportl, sporth, daddr, dport) ==
    [saddr |-> saddr, sportl |-> sportl, sporth |-> sporth,
     daddr |-> daddr, dport |-> dport]

\* a fault for C18: the overlap test looks only for the start of range 2 in
\* range 1
possible_conflict_port_half(a1, p1l, p1h, a2, p2l, p2h) ==
    IF a1 # 0 /\ a2 # 0 /\ a1 # a2 THEN FALSE
    ELSE IF p1l = 0 \/ p2l = 0 THEN TRUE
    ELSE IF p1l <= p2l /\ p2l <= p1h THEN TRUE
    ELSE FALSE

possible_conflict_port(a1, p1l, p1h, a2, p2l, p2h) ==
    IF a1 # 0 /\ a2 # 0 /\ a1 # a2 THEN FALSE
    ELSE IF p1l = 0 \/ p2l = 0 THEN TRUE
    ELSE IF (p1l <= p2l /\ p2l <= p1h) \/ (p2l <= p1l /\ p1l <= p2h) THEN TRUE
    ELSE FALSE

\* a.possible_conflict(o)
possible_conflict(a, o) ==
    /\ possible_conflict_port(a.saddr, a.sportl, a.sporth,
                              o.saddr, o.sportl, o.sporth)
    /\ possible_conflict_port(a.daddr, a.dport, a.dport,
                              o.daddr, o.dport, o.dport)

\* a.definite_conflict(o)
definite_conflict(a, o) ==
    IF /\ a.saddr # 0 /\ a.sportl # 0 /\ a.daddr # 0 /\ a.dport # 0
       /\ a.saddr = o.saddr /\ a.daddr = o.daddr /\ a.dport = o.dport
       /\ \/ (a.sportl <= o.sportl /\ o.sporth <= a.sporth)
          \/ (o.sportl <= a.sportl /\ a.sporth <= o.sporth)
    THEN TRUE
    ELSE FALSE

\* a fault for C2: `found' returns this_sport itself, the port of r
find_sport_found_this(r, this_sport) ==
    [sport |-> htons(ToU16(this_sport)), rover |-> r]

find_sport_found(r, this_sport) ==
    [sport |-> htons(ToU16(this_sport + 1)), rover |-> r]

RECURSIVE find_sport_loop(_, _, _, _, _)

\* a fault for C3: the test against _sporth admits this_sport = _sporth
find_sport_loop_le(ms, p, rv, r, this_sport) ==
    LET next == ms[r].pat_next
        next_sport == ntohs(sport(ms[next]))
    IN IF next_sport > this_sport + 1
       THEN find_sport_found(r, this_sport)
       ELSE IF next_sport <= this_sport /\ this_sport <= p.sporth
       THEN find_sport_found(r, this_sport)
       ELSE IF next_sport <= this_sport /\ next_sport > p.sportl
       THEN find_sport_found(r, ToU16(p.sportl - 1))
       ELSE IF next = rv
       THEN [sport |-> 0, rover |-> rv]
       ELSE find_sport_loop(ms, p, rv, next, next_sport)

\* a fault for C4: the search never wraps to the ports below the lowest one in use
find_sport_loop_nowrap(ms, p, rv, r, this_sport) ==
    LET next == ms[r].pat_next
        next_sport == ntohs(sport(ms[next]))
    IN IF next_sport > this_sport + 1
       THEN find_sport_found(r, this_sport)
       ELSE IF next_sport <= this_sport /\ this_sport < p.sporth
       THEN find_sport_found(r, this_sport)
       ELSE IF next = rv
       THEN [sport |-> 0, rover |-> rv]
       ELSE find_sport_loop(ms, p, rv, next, next_sport)

\* a fault for C16: the test against _sporth is made wherever the rover is,
\* not only at the wrap point
find_sport_loop_anywhere(ms, p, rv, r, this_sport) ==
    LET next == ms[r].pat_next
        next_sport == ntohs(sport(ms[next]))
    IN IF next_sport > this_sport + 1
       THEN find_sport_found(r, this_sport)
       ELSE IF this_sport < p.sporth
       THEN find_sport_found(r, this_sport)
       ELSE IF next_sport <= this_sport /\ next_sport > p.sportl
       THEN find_sport_found(r, ToU16(p.sportl - 1))
       ELSE IF next = rv
       THEN [sport |-> 0, rover |-> rv]
       ELSE find_sport_loop(ms, p, rv, next, next_sport)

\* a fault for C14: a gap is seen as soon as the next port is larger
find_sport_loop_gt(ms, p, rv, r, this_sport) ==
    LET next == ms[r].pat_next
        next_sport == ntohs(sport(ms[next]))
    IN IF next_sport > this_sport
       THEN find_sport_found(r, this_sport)
       ELSE IF next_sport <= this_sport /\ this_sport < p.sporth
       THEN find_sport_found(r, this_sport)
       ELSE IF next_sport <= this_sport /\ next_sport > p.sportl
       THEN find_sport_found(r, ToU16(p.sportl - 1))
       ELSE IF next = rv
       THEN [sport |-> 0, rover |-> rv]
       ELSE find_sport_loop(ms, p, rv, next, next_sport)

\* a fault for C11: the search leaves _rover where it stopped when it fails
find_sport_loop_moves(ms, p, rv, r, this_sport) ==
    LET next == ms[r].pat_next
        next_sport == ntohs(sport(ms[next]))
    IN IF next_sport > this_sport + 1
       THEN find_sport_found(r, this_sport)
       ELSE IF next_sport <= this_sport /\ this_sport < p.sporth
       THEN find_sport_found(r, this_sport)
       ELSE IF next_sport <= this_sport /\ next_sport > p.sportl
       THEN find_sport_found(r, ToU16(p.sportl - 1))
       ELSE IF next = rv
       THEN [sport |-> 0, rover |-> r]
       ELSE find_sport_loop(ms, p, rv, next, next_sport)

\* the do-while loop of find_sport, entered at r with this_sport
find_sport_loop(ms, p, rv, r, this_sport) ==
    LET next == ms[r].pat_next
        next_sport == ntohs(sport(ms[next]))
    IN IF next_sport > this_sport + 1
       THEN find_sport_found(r, this_sport)
       ELSE IF next_sport <= this_sport /\ this_sport < p.sporth
       THEN find_sport_found(r, this_sport)
       ELSE IF next_sport <= this_sport /\ next_sport > p.sportl
       THEN find_sport_found(r, ToU16(p.sportl - 1))
       ELSE IF next = rv
       THEN [sport |-> 0, rover |-> rv]
       ELSE find_sport_loop(ms, p, rv, next, next_sport)

\* a fault for C13: the shortcut hands out the top of the range
find_sport_top(ms, p, rv) ==
    IF p.sportl = p.sporth \/ rv = NULL
    THEN [sport |-> htons(ToU16(p.sporth)), rover |-> rv]
    ELSE find_sport_loop(ms, p, rv, rv, ntohs(sport(ms[rv])))

\* returns the port (network byte order; 0 = nothing found) and the new _rover
find_sport(ms, p, rv) ==
    IF p.sportl = p.sporth \/ rv = NULL
    THEN [sport |-> htons(ToU16(p.sportl)), rover |-> rv]
    ELSE find_sport_loop(ms, p, rv, rv, ntohs(sport(ms[rv])))

\* (*fmap)->pat_insert_after(_rover); _rover = *fmap; return true;
create_mapping_link(pr, rv) ==
    [ok |-> TRUE, maps |-> pat_insert_after(pr.maps, pr.in_map, rv),
     rover |-> pr.in_map, fmap |-> pr.in_map, rmap |-> pr.out_map]

\* a fault for C8: the wildcard addresses are filled in from the wrong side
create_mapping_out_swapped(p, in, new_sport) ==
    FlowID(IF p.saddr = 0 THEN in.daddr ELSE p.saddr, new_sport,
           IF p.daddr = 0 THEN in.saddr ELSE p.daddr,
           IF p.dport # 0 THEN htons(ToU16(p.dport)) ELSE in.dport)

\* the outbound flow id, new_sport given
create_mapping_out(p, in, new_sport) ==
    FlowID(IF p.saddr = 0 THEN in.saddr ELSE p.saddr, new_sport,
           IF p.daddr = 0 THEN in.daddr ELSE p.daddr,
           IF p.dport # 0 THEN htons(ToU16(p.dport)) ELSE in.dport)

\* create_mapping after the port is chosen: fs is find_sport's result
create_mapping_sport(ms, p, in, fport, rport, fs) ==
    IF p.sportl # 0 /\ fs.sport = 0
    THEN [ok |-> FALSE, maps |-> ms, rover |-> fs.rover, fmap |-> NULL, rmap |-> NULL]
    ELSE create_mapping_link(
             make_pair(ms, in, create_mapping_out(p, in, fs.sport), ThePattern,
                       fport, rport),
             fs.rover)

create_mapping(ms, p, rv, in, fport, rport) ==
    create_mapping_sport(ms, p, in, fport, rport,
                         IF p.sportl = 0
                         THEN [sport |-> in.sport, rover |-> rv]
                         ELSE find_sport(ms, p, rv))

\* returns the heap and the new _rover
mapping_freed(ms, rv, m) ==
    LET rv1 == IF rv = m
               THEN (IF ms[m].pat_next = m THEN NULL ELSE ms[m].pat_next)
               ELSE rv
    IN [maps |-> pat_unlink(ms, m), rover |-> rv1]

----------------------------------------------------------------------------
(* HashMap<IPFlowID, Mapping *>: a key is absent, or maps to NULL (left by  *)
(* insert(key, 0)), or maps to a Mapping                                    *)

EmptyMap == [k \in {} |-> NULL]

find(h, k) == IF k \in DOMAIN h THEN h[k] ELSE NULL

insert(h, k, v) == [x \in (DOMAIN h) \cup {k} |-> IF x = k THEN v ELSE h[x]]

\* the keys each() visits with a non-null Mapping
LiveKeys(h) == {k \in DOMAIN h : h[k] # NULL}

RECURSIVE Orders(_)
Orders(S) == IF S = {} THEN {<< >>}
             ELSE UNION {{<<x>> \o s : s \in Orders(S \ {x})} : x \in S}

----------------------------------------------------------------------------
(* IPRewriter *)

\* _input_specs as configure() leaves it: input 0 rewrites by the pattern
\* (forward output 0, reverse output 1), input 1 passes packets through to
\* output 2, input 2 drops, input 3 asks an IPMapper
input_specs ==
    [i \in 0..3 |->
        CASE i = 0 -> [kind |-> "PATTERN", fport |-> 0, rport |-> 1]
          [] i = 1 -> [kind |-> "NOCHANGE", output |-> 2]
          [] i = 2 -> [kind |-> "DROP"]
          [] i = 3 -> [kind |-> "MAPPER"]]

\* IPMapper::get_map
get_map(tcp, flow) == NULL

\* the element's state passed through the handlers
State(ms, rv, tcp, udp) == [maps |-> ms, rover |-> rv, tcp_map |-> tcp, udp_map |-> udp]

install(st, is_tcp, forward, reverse) ==
    LET forward_flow_id == rev(flow_id(st.maps[reverse]))
        reverse_flow_id == rev(flow_id(st.maps[forward]))
    IN IF is_tcp
       THEN [st EXCEPT !.tcp_map = insert(insert(st.tcp_map, forward_flow_id, forward),
                                          reverse_flow_id, reverse)]
       ELSE [st EXCEPT !.udp_map = insert(insert(st.udp_map, forward_flow_id, forward),
                                          reverse_flow_id, reverse)]

\* first loop of clean_map: each() visits the entries in the order `order'
RECURSIVE clean_map_scan(_, _, _, _)
clean_map_scan(ms, h, order, to_free) ==
    IF order = << >> THEN [maps |-> ms, to_free |-> to_free]
    ELSE LET m == h[Head(order)]
         IN IF m # NULL
            THEN IF ~ms[m].used /\ ~ms[ms[m].reverse].used /\ ~ms[m].is_reverse
                 THEN clean_map_scan(ms, h, Tail(order), Append(to_free, m))
                 ELSE clean_map_scan([ms EXCEPT ![m].used = FALSE], h, Tail(order), to_free)
            ELSE clean_map_scan(ms, h, Tail(order), to_free)

\* second loop of clean_map; returns the heap, the rover and the table
\* the body of the second loop for m, after mapping_freed (fr): the two
\* inserts of 0 and the two deletes
\* a fault for C21: the reverse Mapping's entry is not replaced by 0
clean_map_delete_forward(fr, h, m, r) ==
    [maps |-> [fr.maps EXCEPT ![r] = FreedMap, ![m] = FreedMap],
     rover |-> fr.rover,
     h |-> insert(h, rev(flow_id(fr.maps[r])), NULL)]

clean_map_delete(fr, h, m, r) ==
    [maps |-> [fr.maps EXCEPT ![r] = FreedMap, ![m] = FreedMap],
     rover |-> fr.rover,
     h |-> insert(insert(h, rev(flow_id(fr.maps[r])), NULL),
                  rev(flow_id(fr.maps[m])), NULL)]

clean_map_free_one(ms, rv, h, m) ==
    clean_map_delete(IF ms[m].pat # NULL
                     THEN mapping_freed(ms, rv, m)
                     ELSE [maps |-> ms, rover |-> rv],
                     h, m, ms[m].reverse)

RECURSIVE clean_map_loop(_, _)
clean_map_loop(c, to_free) ==
    IF to_free = << >> THEN c
    ELSE clean_map_loop(clean_map_free_one(c.maps, c.rover, c.h, Head(to_free)),
                        Tail(to_free))

clean_map_free(ms, rv, h, to_free) ==
    clean_map_loop([maps |-> ms, rover |-> rv, h |-> h], to_free)

clean_map_scanned(scan, rv, h) == clean_map_free(scan.maps, rv, h, scan.to_free)

clean_map(ms, rv, h, order) ==
    clean_map_scanned(clean_map_scan(ms, h, order, << >>), rv, h)

clean_tables(t, u) == State(u.maps, u.rover, t.h, u.h)

clean_udp(t, udp_map_, udp_order) ==
    clean_tables(t, clean_map(t.maps, t.rover, udp_map_, udp_order))

\* IPRewriter::clean, the table orders given
clean(st, tcp_order, udp_order) ==
    clean_udp(clean_map(st.maps, st.rover, st.tcp_map, tcp_order), st.udp_map, udp_order)

Outcome(st, res, m, opkt, oport) ==
    [st |-> st, res |-> res, m |-> m, opkt |-> opkt, oport |-> oport]

NoPacket == [ip_p |-> "none"]

\* m->apply(p); output(m->output()).push(p);
push_apply(st, res, m, p) ==
    Outcome([st EXCEPT !.maps = mark_used(st.maps, m)], res, m,
            apply(st.maps[m], p), st.maps[m].out)

\* if (pat->create_mapping(flow, fport, rport, &m, &reverse)) install(tcp, m, reverse);
\* cm is create_mapping's result, st1 the state it leaves
push_created(st1, cm, tcp, p) ==
    IF cm.ok
    THEN push_apply(install(st1, tcp, cm.fmap, cm.rmap), "created", cm.fmap, p)
    ELSE Outcome(st1, "nomapping", NULL, NoPacket, -1)

push_pattern_cm(st, cm, tcp, p) ==
    push_created([st EXCEPT !.maps = cm.maps, !.rover = cm.rover], cm, tcp, p)

push_pattern(st, is, tcp, p) ==
    push_pattern_cm(st, create_mapping(st.maps, pat, st.rover, p.flow, is.fport, is.rport),
                    tcp, p)

push_mapper(st, mm, p) ==
    IF mm # NULL THEN push_apply(st, "mapped", mm, p)
    ELSE Outcome(st, "kill", NULL, NoPacket, -1)

\* a fault for C12: case INPUT_SPEC_DROP lacks its break and runs into the
\* pattern case
push_miss_nobreak(st, is, tcp, p) ==
    CASE is.kind = "NOCHANGE" -> Outcome(st, "nochange", NULL, p, is.output)
      [] is.kind = "DROP" -> push_pattern(st, input_specs[0], tcp, p)
      [] is.kind = "PATTERN" -> push_pattern(st, is, tcp, p)
      [] is.kind = "MAPPER" -> push_mapper(st, get_map(tcp, p.flow), p)

\* the switch on is.kind of a packet that found no mapping
push_miss(st, is, tcp, p) ==
    CASE is.kind = "NOCHANGE" -> Outcome(st, "nochange", NULL, p, is.output)
      [] is.kind = "DROP" -> Outcome(st, "kill", NULL, NoPacket, -1)
      [] is.kind = "PATTERN" -> push_pattern(st, is, tcp, p)
      [] is.kind = "MAPPER" -> push_mapper(st, get_map(tcp, p.flow), p)

\* a fault for C17: the input's spec is looked at before the Mapping found
push_found_drop(st, m, is, tcp, p) ==
    IF m # NULL /\ is.kind # "DROP" THEN push_apply(st, "hit", m, p)
    ELSE push_miss(st, is, tcp, p)

push_found(st, m, is, tcp, p) ==
    IF m # NULL THEN push_apply(st, "hit", m, p) ELSE push_miss(st, is, tcp, p)

push(st, port, p) ==
    push_found(st,
               IF p.ip_p = "TCP" THEN find(st.tcp_map, p.flow) ELSE find(st.udp_map, p.flow),
               input_specs[port], p.ip_p = "TCP", p)

----------------------------------------------------------------------------
(* The packets upstream delivers: checksums computed from scratch           *)
(* (one's-complement sum of the 16-bit words, complemented)                 *)

ip_checksum(flow, ip_rest) ==
    htons(Not16(Fold(ip_rest + (flow.saddr \div U16) + (flow.saddr % U16)
                             + (flow.daddr \div U16) + (flow.daddr % U16))))

th_checksum(flow, th_rest) ==
    htons(Not16(Fold(th_rest + (flow.saddr \div U16) + (flow.saddr % U16)
                             + (flow.daddr \div U16) + (flow.daddr % U16)
                             + ntohs(flow.sport) + ntohs(flow.dport))))

ValidPacket(ip_p, flow, ip_rest, th_rest) ==
    Packet(ip_p, flow, ip_rest, ip_checksum(flow, ip_rest),
           th_rest, th_checksum(flow, th_rest))

Addrs == 1..MaxAddr

Ports == 1..MaxPort

\* the 5-tuples of the packets: between two distinct hosts, on two distinct ports
Flows == {FlowID(e[1], htons(e[2]), e[3], htons(e[4])) :
            e \in {x \in Addrs \X Ports \X Addrs \X Ports : x[1] # x[3] /\ x[2] # x[4]}}

\* a 20-byte header of a 40-byte datagram, protocol word left out / put in
Packets == {ValidPacket(ip_p, f, 17704, 26) : ip_p \in {"TCP", "UDP"}, f \in Flows}

\* source-port fields Pattern::parse accepts: `-', one port, a range
SportRanges == {<<0, 0>>, <<1, 1>>, <<1, MaxRange>>, <<2, MaxRange>>}

\* the configured pattern: SADDR is `-' or 1, DADDR DPORT is `- -' or `2 1'
Patterns ==
    {Pattern(sa, sp[1], sp[2], dd[1], dd[2]) :
        sa \in {0, 1}, sp \in SportRanges, dd \in {<<0, 0>>, <<2, 1>>}}

----------------------------------------------------------------------------
(* The element as a state machine *)

Cur == State(maps, rover, tcp_map, udp_map)

\* what the last call was: "push" or "gc"; for a gc, whether it is the first
\* or at least the second pass since the last push; for a push that created a
\* pair, the forward Mapping, the protocol and the packet's 5-tuple; for a
\* push, how it ended (res)
Last(op, n, created, tcp, flow) ==
    [op |-> op, n |-> n, created |-> created, tcp |-> tcp, flow |-> flow,
     res |-> "none"]

NoFlow == FlowID(0, 0, 0, 0)

\* no conflict test has run
NoConflict ==
    [tested |-> FALSE, possible |-> FALSE, definite |-> FALSE, definite_o |-> FALSE]

Init ==
    /\ bigEndian = FALSE
    /\ pat \in Patterns
    /\ rover = NULL
    /\ maps = [i \in 1..(2 * MaxPairs) |-> NoMap]
    /\ tcp_map = EmptyMap
    /\ udp_map = EmptyMap
    /\ last = Last("init", 0, NULL, FALSE, NoFlow)
    /\ cmap = NoMap
    /\ cpkt = NoPacket
    /\ cres = NoPacket
    /\ opat = Pattern(0, 0, 0, 0, 0)
    /\ conflict = NoConflict

\* a push that misses on the pattern input and finds a port allocates a pair
Allocates(st, port, p) ==
    /\ (IF p.ip_p = "TCP" THEN find(st.tcp_map, p.flow) ELSE find(st.udp_map, p.flow)) = NULL
    /\ input_specs[port].kind = "PATTERN"
    /\ (pat.sportl = 0 \/ find_sport(st.maps, pat, st.rover).sport # 0)

\* the element's variables take the state st
Becomes(st) ==
    /\ maps' = st.maps
    /\ rover' = st.rover
    /\ tcp_map' = st.tcp_map
    /\ udp_map' = st.udp_map

Pushed(o, p) ==
    /\ Becomes(o.st)
    /\ last' = IF o.res = "created"
               THEN [Last("push", 0, o.m, p.ip_p = "TCP", p.flow) EXCEPT !.res = o.res]
               ELSE [Last("push", 0, NULL, FALSE, NoFlow) EXCEPT !.res = o.res]

Push(port, p) ==
    /\ Allocates(Cur, port, p) => Cardinality(FreeCells(maps)) >= 2
    /\ Pushed(push(Cur, port, p), p)
    /\ UNCHANGED <<bigEndian, pat, csvars, pcvars>>

\* IPRewriter::run_scheduled (mark_live_tcp is compiled out)
RunScheduled(tcp_order, udp_order) ==
    /\ Becomes(clean(Cur, tcp_order, udp_order))
    /\ last' = Last("gc", IF last.op = "gc" THEN 2 ELSE 1, NULL, FALSE, NoFlow)
    /\ UNCHANGED <<bigEndian, pat, csvars, pcvars>>

PushStep == \E port \in DOMAIN input_specs, p \in Packets : Push(port, p)

GCStep == \E tcp_order \in Orders(LiveKeys(tcp_map)), udp_order \in Orders(LiveKeys(udp_map)) :
              RunScheduled(tcp_order, udp_order)

Next == PushStep \/ GCStep

Spec == Init /\ [][Next]_vars

----------------------------------------------------------------------------
(* The Pattern alone: any sequence of create_mapping calls and of frees as  *)
(* the second loop of clean_map performs them                               *)

InitPat ==
    /\ bigEndian = FALSE
    /\ pat \in Patterns
    /\ rover = NULL
    /\ maps = [i \in 1..(2 * MaxPatPairs) |-> NoMap]
    /\ tcp_map = EmptyMap
    /\ udp_map = EmptyMap
    /\ last = Last("init", 0, NULL, FALSE, NoFlow)
    /\ cmap = NoMap
    /\ cpkt = NoPacket
    /\ cres = NoPacket
    /\ opat = Pattern(0, 0, 0, 0, 0)
    /\ conflict = NoConflict

\* the forward Mappings in the heap
LiveForward(ms) == {i \in DOMAIN ms : ms[i].live /\ ~ms[i].is_reverse}

Created(cm, in) ==
    /\ maps' = cm.maps
    /\ rover' = cm.rover
    /\ last' = Last("create", 0, cm.fmap, FALSE, IF cm.ok THEN in ELSE NoFlow)

CreateMapping(in) ==
    /\ (pat.sportl = 0 \/ find_sport(maps, pat, rover).sport # 0)
          => Cardinality(FreeCells(maps)) >= 2
    /\ Created(create_mapping(maps, pat, rover, in,
                               input_specs[0].fport, input_specs[0].rport), in)
    /\ UNCHANGED <<bigEndian, pat, tcp_map, udp_map, csvars, pcvars>>

Freed(fr) ==
    /\ maps' = fr.maps
    /\ rover' = fr.rover
    /\ last' = Last("free", 0, NULL, FALSE, NoFlow)

MappingFreed(m) ==
    /\ Freed(clean_map_free(maps, rover, EmptyMap, <<m>>))
    /\ UNCHANGED <<bigEndian, pat, tcp_map, udp_map, csvars, pcvars>>

CreateStep == \E in \in Flows : CreateMapping(in)

FreeStep == \E m \in LiveForward(maps) : MappingFreed(m)

NextPat == CreateStep \/ FreeStep

SpecPat == InitPat /\ [][NextPat]_vars

----------------------------------------------------------------------------
(* Mapping::apply alone: a Mapping is constructed for a pair of flow ids on *)
(* a host of either byte order, then applied to packets of the inbound flow *)

\* 0.0.0.1 and 127.255.255.255
CsAddrs == {1, (U16 \div 2 - 1) * U16 + (U16 - 1)}

CsPorts == (1..MaxCsPort) \cup {U16 - 1}

CsFlows == {FlowID(sa, htons(sp), da, htons(dp)) :
               sa \in CsAddrs, sp \in CsPorts, da \in CsAddrs, dp \in CsPorts}

\* sums of the transport words apply() leaves alone
CsRests == {26, U16 - 6}

\* packets of flow `in': TCP and UDP with both checksums right, and UDP
\* with the checksum field 0 (no checksum)
CsPackets(in) ==
    {ValidPacket(ip_p, in, 17704, tr) : ip_p \in {"TCP", "UDP"}, tr \in CsRests}
        \cup {[ValidPacket("UDP", in, 17704, 26) EXCEPT !.th_sum = 0]}

InitCsum ==
    /\ bigEndian \in BOOLEAN
    /\ pat = Pattern(0, 0, 0, 0, 0)
    /\ rover = NULL
    /\ maps = << >>
    /\ tcp_map = EmptyMap
    /\ udp_map = EmptyMap
    /\ last = Last("init", 0, NULL, FALSE, NoFlow)
    /\ cmap = NoMap
    /\ cpkt = NoPacket
    /\ cres = NoPacket
    /\ opat = Pattern(0, 0, 0, 0, 0)
    /\ conflict = NoConflict

NewMapping(in, out) ==
    /\ cmap = NoMap
    /\ cmap' = [in |-> in, m |-> Mapping(in, out, NULL, 0, FALSE)]
    /\ UNCHANGED <<bigEndian, rwvars, cpkt, cres, pcvars>>

ApplyMapping(p) ==
    /\ cpkt' = p
    /\ cres' = apply(cmap.m, p)
    /\ UNCHANGED <<bigEndian, rwvars, cmap, pcvars>>

NewMappingStep == \E in \in CsFlows, out \in CsFlows : NewMapping(in, out)

ApplyStep == cmap # NoMap /\ \E p \in CsPackets(cmap.in) : ApplyMapping(p)

NextCsum == NewMappingStep \/ ApplyStep

SpecCsum == InitCsum /\ [][NextCsum]_vars

----------------------------------------------------------------------------
(* The conflict tests alone: two Patterns as Pattern::parse builds them, and *)
(* possible_conflict and definite_conflict of the one with the other         *)

\* the Patterns Pattern::parse accepts: SADDR and DADDR `-' or an address,
\* SPORT `-', a port or lo-hi with 0 <= lo <= hi, DPORT `-' or a port
ConfPatterns ==
    {Pattern(sa, sp[1], sp[2], da, dp) :
        sa \in 0..MaxAddr,
        sp \in {x \in (0..MaxRange) \X (0..MaxRange) : x[1] <= x[2]},
        da \in 0..MaxAddr, dp \in 0..MaxPort}

InitConf ==
    /\ bigEndian = FALSE
    /\ pat \in ConfPatterns
    /\ rover = NULL
    /\ maps = << >>
    /\ tcp_map = EmptyMap
    /\ udp_map = EmptyMap
    /\ last = Last("init", 0, NULL, FALSE, NoFlow)
    /\ cmap = NoMap
    /\ cpkt = NoPacket
    /\ cres = NoPacket
    /\ opat \in ConfPatterns
    /\ conflict = NoConflict

ConflictStep ==
    /\ conflict' = [tested |-> TRUE,
                    possible |-> possible_conflict(pat, opat),
                    definite |-> definite_conflict(pat, opat),
                    definite_o |-> definite_conflict(opat, pat)]
    /\ UNCHANGED <<bigEndian, rwvars, csvars, opat>>

NextConf == ConflictStep

SpecConf == InitConf /\ [][NextConf]_vars

----------------------------------------------------------------------------
(* Claims *)

\* C1: in one GC pass, whatever the order in which each() visits the entries,
\* a pair is collected only if both its used flags were false when the pass
\* began; a pair with either flag true at the start is still there after it.
C1_CollectsOnlyIdlePairs ==
    [][last'.op = "gc" =>
         \A m \in LiveForward(maps) :
            LET r == maps[m].reverse
            IN /\ ~maps'[m].live => (~maps[m].used /\ ~maps[r].used)
               /\ (maps[m].used \/ maps[r].used) => (maps'[m].live /\ maps'[r].live)]_vars

\* the source ports (host byte order) of the forward Mappings in the heap
LivePorts(ms) == {ntohs(sport(ms[m])) : m \in LiveForward(ms)}

\* fs, a result of find_sport, is failure or a port no live forward Mapping has
ReturnsFree(ms, fs) == fs.sport # 0 => ntohs(fs.sport) \notin LivePorts(ms)

\* C2 as stated: for a pattern with 1 <= sport_lo <= sport_hi, in every state
\* reached by create_mapping calls and frees, find_sport does not return the
\* source port of a live forward Mapping of the pattern.
C2_NeverReturnsLivePort ==
    pat.sportl >= 1 => ReturnsFree(maps, find_sport(maps, pat, rover))

\* C2, amended: the same for a pattern with a proper range, 1 <= sport_lo <
\* sport_hi (a single-port pattern always gets sport_lo, live or not).
C2_RangeNeverReturnsLivePort ==
    (pat.sportl >= 1 /\ pat.sportl < pat.sporth)
        => ReturnsFree(maps, find_sport(maps, pat, rover))

\* a proper range, two live Mappings left after a free, and a port found
C2_Witness ==
    /\ pat.sportl >= 1 /\ pat.sportl < pat.sporth
    /\ Cardinality(LiveForward(maps)) >= 2
    /\ \E i \in DOMAIN maps : maps[i] = FreedMap
    /\ find_sport(maps, pat, rover).sport # 0

\* fs, a result of find_sport, is failure or a port of p's range
ReturnsInRange(p, fs) ==
    fs.sport # 0 => (p.sportl <= ntohs(fs.sport) /\ ntohs(fs.sport) <= p.sporth)

\* C3: for a pattern with 1 <= sport_lo <= sport_hi, in every reachable state
\* of its list, a port find_sport returns lies in sport_lo..sport_hi.
C3_ReturnedPortInRange ==
    pat.sportl >= 1 => ReturnsInRange(pat, find_sport(maps, pat, rover))

\* the search wraps: the top port is in use, the rover is elsewhere and the
\* port found is sport_lo
C3_Witness ==
    /\ pat.sportl >= 1 /\ pat.sportl < pat.sporth
    /\ rover # NULL
    /\ pat.sporth \in LivePorts(maps)
    /\ ntohs(sport(maps[rover])) # pat.sporth
    /\ find_sport(maps, pat, rover).sport = htons(pat.sportl)

Installed(ms, h, m) ==
    /\ find(h, rev(flow_id(ms[ms[m].reverse]))) = m
    /\ find(h, rev(flow_id(ms[m]))) = ms[m].reverse

\* C5: after any sequence of pushes and GC passes, each pair installed and not
\* yet collected has both members in one flow table: the forward under
\* reverse.mapto.rev(), the reverse under forward.mapto.rev().
C5_BothMembersInstalled ==
    \A m \in LiveForward(maps) : Installed(maps, tcp_map, m) \/ Installed(maps, udp_map, m)

\* C6: after two consecutive GC passes with no push in between, no flow table
\* holds a live Mapping and every pair there was has been destroyed.
C6_TwoPassesEmpty ==
    (last.op = "gc" /\ last.n = 2)
        => /\ LiveKeys(tcp_map) = {} /\ LiveKeys(udp_map) = {}
           /\ \A i \in DOMAIN maps : ~maps[i].live

\* the packet of flow F that created the pair of last.created is followed by
\* packet p on input `port': same protocol, 5-tuple F'.rev()
IsReply(port, p) ==
    /\ last.op = "push" /\ last.created # NULL
    /\ (p.ip_p = "TCP") = last.tcp
    /\ p.flow = rev(flow_id(maps[last.created]))
    /\ Push(port, p)

\* outcome o of push is a hit of Mapping r that emits flow f on output `out'
HitsAndEmits(o, r, f, out) ==
    /\ o.res = "hit" /\ o.m = r
    /\ o.opkt.flow = f
    /\ o.oport = out

\* C7: when a packet of 5-tuple F has missed on the pattern input and created
\* the pair F -> F', a following packet of the same protocol and 5-tuple
\* F'.rev(), on any input, hits the paired reverse Mapping, leaves with
\* 5-tuple F.rev() and is emitted on the pattern's reverse output.
C7_ReplyRoundTrip ==
    [][\A port \in DOMAIN input_specs, p \in Packets :
          IsReply(port, p)
              => /\ HitsAndEmits(push(Cur, port, p), maps[last.created].reverse,
                                 rev(last.flow), input_specs[0].rport)
                 /\ maps'[maps[last.created].reverse].used]_vars

\* a reply has hit the reverse of the pair created by the push before it
C7_Witness ==
    /\ last.op = "push" /\ last.created = NULL
    /\ \A i \in DOMAIN maps : maps[i] # FreedMap
    /\ Cardinality(LiveForward(maps)) = 1
    /\ \A m \in LiveForward(maps) :
           /\ maps[maps[m].reverse].used
           /\ flow_id(maps[m]) # rev(flow_id(maps[maps[m].reverse]))

\* C8: create_mapping on inbound flow F gives a forward Mapping whose mapto
\* takes saddr, daddr and dport from the pattern where they are set and from F
\* where they are wildcards, and whose source port is F's when the pattern's
\* is a wildcard and the port find_sport returns otherwise; the forward
\* Mapping carries output f_out, the reverse carries r_out and mapto F.rev().
C8_CreatedMapping ==
    [][(last'.op = "create" /\ last'.created # NULL)
          => LET f == maps'[last'.created]
                 r == maps'[f.reverse]
                 F == last'.flow
             IN /\ f.mapto.saddr = (IF pat.saddr # 0 THEN pat.saddr ELSE F.saddr)
                /\ f.mapto.daddr = (IF pat.daddr # 0 THEN pat.daddr ELSE F.daddr)
                /\ f.mapto.dport = (IF pat.dport # 0 THEN htons(pat.dport) ELSE F.dport)
                /\ f.mapto.sport = (IF pat.sportl = 0 THEN F.sport
                                    ELSE find_sport(maps, pat, rover).sport)
                /\ ~f.is_reverse /\ f.out = input_specs[0].fport
                /\ r.is_reverse /\ r.out = input_specs[0].rport
                /\ r.mapto = rev(F)]_vars

\* a pair created from a pattern with a wildcard SADDR, a port range and a set
\* DADDR DPORT, next to an older pair
C8_Witness ==
    /\ last.op = "create" /\ last.created # NULL
    /\ pat.saddr = 0 /\ pat.sportl >= 1 /\ pat.sportl < pat.sporth /\ pat.dport # 0
    /\ Cardinality(LiveForward(maps)) >= 2

\* apply has rewritten a packet of the Mapping's inbound flow
Applied == cres # NoPacket /\ cpkt.flow = cmap.in /\ cres.flow = cmap.m.mapto

\* C9: for every Mapping and every packet of its inbound flow with the IP and
\* TCP checksums right before apply, after apply the IP checksum is the
\* one's-complement checksum computed from scratch over the rewritten header
\* and the TCP checksum the one computed from scratch over the rewritten
\* addresses and ports.
C9_ChecksumsRecomputed ==
    (Applied /\ cpkt.ip_sum = ip_checksum(cpkt.flow, cpkt.ip_rest))
        => /\ cres.ip_sum = ip_checksum(cres.flow, cres.ip_rest)
           /\ (cpkt.ip_p = "TCP" /\ cpkt.th_sum = th_checksum(cpkt.flow, cpkt.th_rest))
                 => cres.th_sum = th_checksum(cres.flow, cres.th_rest)

\* a TCP packet with right checksums rewritten in both addresses and both
\* ports, on a little-endian host
C9_Witness ==
    /\ Applied /\ ~bigEndian /\ cpkt.ip_p = "TCP"
    /\ cpkt.ip_sum = ip_checksum(cpkt.flow, cpkt.ip_rest)
    /\ cpkt.th_sum = th_checksum(cpkt.flow, cpkt.th_rest)
    /\ cres.flow.saddr # cpkt.flow.saddr /\ cres.flow.daddr # cpkt.flow.daddr
    /\ cres.flow.sport # cpkt.flow.sport /\ cres.flow.dport # cpkt.flow.dport

\* C10: for every Mapping and every UDP packet, apply leaves a UDP checksum
\* field of 0 at 0 and leaves a nonzero one nonzero.
C10_UdpZeroPreserved ==
    (Applied /\ cpkt.ip_p = "UDP") => (cpkt.th_sum = 0 <=> cres.th_sum = 0)

\* the packet's 5-tuple is not in the table of its protocol (or maps to NULL)
Misses(p) ==
    (IF p.ip_p = "TCP" THEN find(tcp_map, p.flow) ELSE find(udp_map, p.flow)) = NULL

\* the pattern has a source-port range and find_sport finds no port in it
PoolExhausted == pat.sportl # 0 /\ find_sport(maps, pat, rover).sport = 0

\* outcome o of push: the packet was killed, nothing was emitted
Killed(o) == o.opkt = NoPacket /\ o.oport = -1 /\ o.m = NULL

\* C11: in every reachable state, when push misses on the pattern input and
\* create_mapping fails because no port of the range is free, the packet is
\* killed, nothing is emitted, and both flow tables, the pattern's list (the
\* heap) and its rover are left as they were.
C11_ExhaustedDropKeepsState ==
    \A port \in DOMAIN input_specs, p \in Packets :
        (input_specs[port].kind = "PATTERN" /\ Misses(p) /\ PoolExhausted)
            => /\ Killed(push(Cur, port, p))
               /\ push(Cur, port, p).st = Cur

\* a push has just failed for lack of a port, with the whole range in use by
\* two pairs
C11_Witness ==
    /\ last.op = "push" /\ last.res = "nomapping"
    /\ pat.sportl < pat.sporth
    /\ PoolExhausted
    /\ Cardinality(LiveForward(maps)) >= 2

\* C12: in every reachable state, when push misses on a NoChange input the
\* packet is emitted unmodified on the input's output, and when it misses on a
\* Drop input the packet is killed; either way no Mapping is created and the
\* flow tables and the pattern's list are left as they were.
C12_NoChangeAndDropKeepState ==
    \A port \in DOMAIN input_specs, p \in Packets :
        (input_specs[port].kind \in {"NOCHANGE", "DROP"} /\ Misses(p))
            => /\ IF input_specs[port].kind = "NOCHANGE"
                  THEN /\ push(Cur, port, p).opkt = p
                       /\ push(Cur, port, p).oport = input_specs[port].output
                  ELSE Killed(push(Cur, port, p))
               /\ push(Cur, port, p).st = Cur

\* a packet has passed through a NoChange input while a pair was installed
C12_Witness ==
    /\ last.op = "push" /\ last.res = "nochange"
    /\ LiveForward(maps) # {}
    /\ LiveKeys(tcp_map) \cup LiveKeys(udp_map) # {}

\* no Mapping has been freed: the Mappings in the heap are all the pattern
\* ever created
NoneFreed(ms) == \A i \in DOMAIN ms : ms[i] # FreedMap

\* the number of ports of the pattern's range
RangeSize(p) == p.sporth - p.sportl + 1

\* C13: for a pattern with range lo..hi, lo < hi, starting from an empty list
\* and with no free in between, the k-th create_mapping call is assigned port
\* lo + k - 1, for k = 1..N with N = hi - lo + 1, and the call after the N-th
\* fails.
C13_PortsInOrderThenFail ==
    [][(last'.op = "create" /\ pat.sportl >= 1 /\ pat.sportl < pat.sporth
           /\ NoneFreed(maps))
          => IF Cardinality(LiveForward(maps)) < RangeSize(pat)
             THEN /\ last'.created # NULL
                  /\ ntohs(sport(maps'[last'.created]))
                        = pat.sportl + Cardinality(LiveForward(maps))
             ELSE last'.created = NULL]_vars

\* the call after the last port of the range was handed out has failed, and
\* no Mapping was ever freed
C13_Witness ==
    /\ last.op = "create" /\ last.created = NULL
    /\ pat.sportl >= 1 /\ pat.sportl < pat.sporth
    /\ NoneFreed(maps)
    /\ Cardinality(LiveForward(maps)) = RangeSize(pat)
    /\ RangeSize(pat) >= 3

\* the ports of p's range
Range(p) == p.sportl..p.sporth

\* C14: for a pattern with range lo..hi, lo < hi, and every port in use, when
\* exactly one Mapping is freed, with port q (whichever it is, the rover's
\* included), the next create_mapping call succeeds and is assigned q.
C14_FreedPortReused ==
    [][(last.op = "free" /\ last'.op = "create"
           /\ pat.sportl >= 1 /\ pat.sportl < pat.sporth
           /\ LivePorts(maps) \subseteq Range(pat)
           /\ Cardinality(LivePorts(maps)) = RangeSize(pat) - 1
           /\ Cardinality(LiveForward(maps)) = RangeSize(pat) - 1)
          => /\ last'.created # NULL
             /\ Range(pat) \ LivePorts(maps) = {ntohs(sport(maps'[last'.created]))}]_vars

\* a range of three ports was full, the pair created last (the rover's) was
\* freed, and the next call was handed its port: the range is full again
C14_Witness ==
    /\ last.op = "create" /\ last.created # NULL
    /\ pat.sportl >= 1 /\ RangeSize(pat) >= 3
    /\ LivePorts(maps) = Range(pat)
    /\ {i \in DOMAIN maps : maps[i] = FreedMap} = {last.created - 2, last.created - 1}

\* the Mappings met from m on by following pat_next, up to the first one met
\* twice or not in the heap
RECURSIVE Cycle(_, _, _)
Cycle(ms, m, seen) ==
    IF m \in seen \/ m \notin DOMAIN ms THEN seen
    ELSE IF ~ms[m].live THEN seen \cup {m}
    ELSE Cycle(ms, ms[m].pat_next, seen \cup {m})

\* the pattern's list: what is met from the rover on
List(ms, rv) == IF rv = NULL THEN {} ELSE Cycle(ms, rv, {})

\* pat_next and pat_prev of forward Mapping m lead to forward Mappings in the
\* heap and undo each other
Linked(ms, m) ==
    /\ ms[m].pat_next \in LiveForward(ms)
    /\ ms[m].pat_prev \in LiveForward(ms)
    /\ ms[ms[m].pat_next].pat_prev = m
    /\ ms[ms[m].pat_prev].pat_next = m

\* C15: after any sequence of create_mapping calls and frees, the rover is
\* NULL exactly when the pattern has no Mapping; otherwise the rover is in the
\* list, pat_next and pat_prev are inverse to each other around one cycle, and
\* the members of the cycle are exactly the forward Mappings the pattern
\* created that have not been deleted (no reverse and no deleted Mapping).
C15_ListIsTheLiveForwards ==
    /\ (rover = NULL) <=> (LiveForward(maps) = {})
    /\ rover # NULL => rover \in LiveForward(maps)
    /\ \A m \in LiveForward(maps) : Linked(maps, m)
    /\ List(maps, rover) = LiveForward(maps)

\* after a free that took the Mapping the rover pointed at, two Mappings are
\* left in the list
C15_Witness ==
    /\ last.op = "free"
    /\ Cardinality(LiveForward(maps)) = 2
    /\ rover # NULL
    /\ Cardinality({i \in DOMAIN maps : maps[i] = FreedMap}) = 2
    /\ \A i \in DOMAIN maps : maps[i] = FreedMap => \A m \in LiveForward(maps) : m < i

\* the members of the list whose successor's port is not greater than theirs
WrapPoints(ms) ==
    {m \in LiveForward(ms) :
        ntohs(sport(ms[ms[m].pat_next])) <= ntohs(sport(ms[m]))}

\* C16 as stated: after any sequence of create_mapping calls and frees, the
\* pattern's list, followed by pat_next, ascends in source port with at most
\* one wrap point.
C16_SortedWithOneWrap == Cardinality(WrapPoints(maps)) <= 1

\* C16, amended: the same for a pattern with a proper source-port range,
\* 1 <= sport_lo < sport_hi.
C16_RangeSortedWithOneWrap ==
    (pat.sportl >= 1 /\ pat.sportl < pat.sporth) => Cardinality(WrapPoints(maps)) <= 1

\* a list of three Mappings of a range pattern whose wrap point is not the
\* Mapping created last: a freed port below the others was handed out again
C16_Witness ==
    /\ pat.sportl >= 1 /\ pat.sportl < pat.sporth
    /\ Cardinality(LiveForward(maps)) >= 3
    /\ \E i \in DOMAIN maps : maps[i] = FreedMap
    /\ \E m \in WrapPoints(maps) : \E n \in LiveForward(maps) : n > m

\* what the table of p's protocol holds for p's 5-tuple
Lookup(p) == IF p.ip_p = "TCP" THEN find(tcp_map, p.flow) ELSE find(udp_map, p.flow)

\* outcome o of push: Mapping m of heap ms was applied and the packet emitted
AppliedAndEmitted(o, ms, m) ==
    /\ o.res = "hit" /\ o.m = m
    /\ o.opkt.flow = ms[m].mapto
    /\ o.oport = ms[m].out

\* C17: in every reachable state, when push finds a live Mapping m for the
\* packet's 5-tuple in the table of its protocol, then on every input
\* (pattern, NoChange, Drop, mapper) no Mapping is created and no port
\* allocated, the packet leaves with 5-tuple m.mapto on output m.output,
\* m.used is true afterwards, and nothing else in the heap, the rover or the
\* flow tables changes.
C17_HitAppliesAndMarksUsed ==
    \A port \in DOMAIN input_specs, p \in Packets :
        (Lookup(p) # NULL /\ maps[Lookup(p)].live)
            => /\ AppliedAndEmitted(push(Cur, port, p), maps, Lookup(p))
               /\ push(Cur, port, p).st
                     = [Cur EXCEPT !.maps = [maps EXCEPT ![Lookup(p)].used = TRUE]]

\* a packet has hit a Mapping while two pairs were installed, one of them idle
C17_Witness ==
    /\ last.op = "push" /\ last.res = "hit"
    /\ Cardinality(LiveForward(maps)) = 2
    /\ \E m \in LiveForward(maps) : maps[m].used \/ maps[maps[m].reverse].used
    /\ \E m \in LiveForward(maps) : ~maps[m].used /\ ~maps[maps[m].reverse].used

\* two address or port fields agree: equal, or at least one is the wildcard 0
Agree(x, y) == x = y \/ x = 0 \/ y = 0

\* the source ports of a and of b have a port in common
SportsOverlap(a, b) == (a.sportl..a.sporth) \cap (b.sportl..b.sporth) # {}

\* C18: for all patterns a and b, possible_conflict(a, b) is true exactly when
\* (source side) the source addresses are equal or one is wildcard, and the
\* source-port ranges overlap or one source port is wildcard (sport_lo = 0);
\* and (destination side) the destination addresses are equal or one is
\* wildcard, and the destination ports are equal or one is wildcard.
C18_PossibleConflictIsOverlap ==
    conflict.tested =>
        (conflict.possible <=>
            /\ Agree(pat.saddr, opat.saddr)
            /\ pat.sportl = 0 \/ opat.sportl = 0 \/ SportsOverlap(pat, opat)
            /\ Agree(pat.daddr, opat.daddr)
            /\ Agree(pat.dport, opat.dport))

\* possible_conflict answered true for two ranges that overlap without either
\* holding the other's first port below its own, on one wildcard address
C18_Witness ==
    /\ conflict.tested /\ conflict.possible
    /\ 0 < opat.sportl /\ opat.sportl < pat.sportl /\ pat.sportl <= opat.sporth
    /\ opat.sporth < pat.sporth
    /\ pat.saddr = 0 /\ opat.saddr # 0
    /\ pat.daddr # 0 /\ pat.daddr = opat.daddr
    /\ pat.dport # 0 /\ pat.dport = opat.dport

\* the GC pass left alone every entry of table h whose Mapping it did not
\* collect
KeepsSurvivors(h, hn, msn) ==
    \A k \in DOMAIN h : (h[k] # NULL /\ msn[h[k]].live) => find(hn, k) = h[k]

\* C19: a GC pass changes a flow table only at the entries of the pairs it
\* collects: a key that maps to a member of a pair the pass does not collect
\* maps to the same Mapping after the pass.
C19_GCKeepsOtherPairsEntries ==
    [][last'.op = "gc" =>
         /\ KeepsSurvivors(tcp_map, tcp_map', maps')
         /\ KeepsSurvivors(udp_map, udp_map', maps')]_vars

\* the forward Mappings table h holds: the live forwards found under their key
TableForwards(ms, h) ==
    {m \in LiveForward(ms) : find(h, rev(flow_id(ms[ms[m].reverse]))) = m}

\* no two forward Mappings of table h rewrite to the same 5-tuple
InjectiveIn(ms, h) ==
    \A m1 \in TableForwards(ms, h), m2 \in TableForwards(ms, h) :
        ms[m1].mapto = ms[m2].mapto => m1 = m2

\* C20: after any sequence of pushes and GC passes, no two distinct live
\* forward mappings of one flow table have the same mapto: the rewriting of
\* inbound flows to outbound flows is injective among live flows.
C20_TranslationInjective ==
    InjectiveIn(maps, tcp_map) /\ InjectiveIn(maps, udp_map)

\* every entry of table h that is not 0 holds a Mapping that has not been
\* deleted and whose reverse() has not been deleted
HoldsLive(ms, h) ==
    \A k \in DOMAIN h :
        h[k] # NULL => (ms[h[k]].live /\ ms[ms[h[k]].reverse].live)

\* C21: after any sequence of pushes and GC passes, every entry of either flow
\* table that is not a tombstone references a Mapping that has not been
\* destroyed and whose reverse has not been destroyed (so a push that hits
\* applies a Mapping that exists, and a GC pass deletes no Mapping again).
C21_TablesHoldLiveMappings ==
    HoldsLive(maps, tcp_map) /\ HoldsLive(maps, udp_map)

\* a GC pass has destroyed a pair and left tombstones while another pair is
\* still in the same table
C21_Witness ==
    /\ last.op = "gc"
    /\ \E i \in DOMAIN maps : maps[i] = FreedMap
    /\ \E k \in DOMAIN tcp_map : tcp_map[k] = NULL
    /\ \E k \in DOMAIN tcp_map : tcp_map[k] # NULL /\ ~maps[tcp_map[k]].is_reverse

\* C22: definite_conflict is symmetric: for all patterns a and b that parse
\* accepts (0 <= sport_lo <= sport_hi, 0 <= dport), a.definite_conflict(b)
\* equals b.definite_conflict(a).
C22_DefiniteConflictSymmetric ==
    conflict.tested => (conflict.definite = conflict.definite_o)

====
